---- MODULE Spec2Model ----
(***************************************************************************)
(* A model of pvs_frozen.py: the MonitorThread worker (run), its PV        *)
(* filter, the per-PV history store fed by the bootstrap read and by the   *)
(* Channel Access subscription callbacks, the freeze / disconnect          *)
(* classification and the periodic check cycle.                            *)
(*                                                                         *)
(* Python values are represented as follows.  Strings are TLA+ strings;    *)
(* Chars(s) gives the characters of a string, so that startswith and       *)
(* endswith are computed on characters.  None is the string "None".  PV    *)
(* values are strings ("1", "2") or None; only == is ever applied to them. *)
(* time.time() is never read back by the code, so every timestamp is the   *)
(* token "t".  A Python dict is a function plus the sequence of its keys   *)
(* in insertion order.                                                     *)
(*                                                                         *)
(* Three threads act: the worker, which executes run() and, through the    *)
(* timer it owns, the later check cycles; the Channel Access thread, which *)
(* delivers the subscription callbacks one at a time; and the GUI thread,  *)
(* which calls stop().  A callback is two steps, one for each of its       *)
(* appends; a check cycle is one step for each test of each key and one    *)
(* for its report.  The signals of run(), filter_pvnames and stop() are    *)
(* kept in the log `emitted`; those of check_pvs in `report`, which holds  *)
(* the latest cycle only.                                                  *)
(***************************************************************************)
EXTENDS Integers, Sequences, FiniteSets, TLC

VARIABLES
    pc,                \* position of the worker thread in run()
    conn,              \* self.conn
    filters,           \* self.filters, <<filter1, filter2>>
    ignored_pvs,       \* self.ignored_pvs
    all_pvnames,       \* local all_pvnames of run()
    filtered_pvnames,  \* local filtered_pvnames of run()
    idx,               \* position of the for loop of run() (line 67)
    pv_keys,           \* keys of self.pv_values, in insertion order
    pv_values,         \* self.pv_values: name -> [values, timestamps]
    pv_monitors,       \* keys of self.pv_monitors
    timer,             \* self.timer: "None", "active" or "stopped"
    running,           \* self.running
    cb,                \* callback between its two appends: its pvname, or None
    cyc,               \* activation record of check_pvs
    ncycles,           \* number of check cycles begun
    emitted,           \* the signals emitted by run() and stop() so far, in order
    report,            \* the signals emitted by the latest check_pvs, in order
    ret                \* record of the last direct call of a function

vars == <<pc, conn, filters, ignored_pvs, all_pvnames, filtered_pvnames, idx,
          pv_keys, pv_values, pv_monitors, timer, running, cb, cyc, ncycles,
          emitted, report, ret>>

----------------------------------------------------------------------------
(* Bounds of the model *)

\* longest history a callback may extend in the run specification
MaxHist == 2
\* number of check cycles begun in the run specification
MaxCycles == 2
\* number of runs of equal values a history of the detector specification is made of
MaxRuns == 3
\* longest list of candidate names of the filter specification
MaxNames == 4

(* Program constants *)

\* the window of check_pv_frozen: min(15, len(values))
NUM_SAMPLES == 15

----------------------------------------------------------------------------
(* Python values *)

None == "None"

\* the values a PV can deliver besides None
Scalars == {"1", "2"}

Values == Scalars \cup {None}

\* time.time(): the code stores it and never reads it
Timestamp == "t"

Chars(s) ==
  CASE s = "" -> <<>>
    [] s = "A" -> <<"A">>
    [] s = "SI-01" -> <<"S", "I", "-", "0", "1">>
    [] s = "Temp-Mon" -> <<"T", "e", "m", "p", "-", "M", "o", "n">>
    [] s = "SI-01:Temp-Mon" -> <<"S", "I", "-", "0", "1", ":", "T", "e", "m", "p", "-", "M", "o", "n">>
    [] s = "SI-02:Temp-Mon" -> <<"S", "I", "-", "0", "2", ":", "T", "e", "m", "p", "-", "M", "o", "n">>
    [] s = "SI-01:Other" -> <<"S", "I", "-", "0", "1", ":", "O", "t", "h", "e", "r">>
    [] s = "SI-01:Curr-SP" -> <<"S", "I", "-", "0", "1", ":", "C", "u", "r", "r", "-", "S", "P">>
    [] s = "SI-01:Volt-SP:RBV" -> <<"S", "I", "-", "0", "1", ":", "V", "o", "l", "t", "-", "S", "P", ":", "R", "B", "V">>
    [] s = "SI-01:Pos-Setpoint" -> <<"S", "I", "-", "0", "1", ":", "P", "o", "s", "-", "S", "e", "t", "p", "o", "i", "n", "t">>
    [] s = "SI-01:DISP" -> <<"S", "I", "-", "0", "1", ":", "D", "I", "S", "P">>
    [] s = "RAD:Thermo3:TotalDoseRate:Dose" -> <<"R", "A", "D", ":", "T", "h", "e", "r", "m", "o", "3", ":", "T", "o", "t", "a", "l", "D", "o", "s", "e", "R", "a", "t", "e", ":", "D", "o", "s", "e">>
    [] s = "RAD:Thermo6:TotalDoseRate:Dose" -> <<"R", "A", "D", ":", "T", "h", "e", "r", "m", "o", "6", ":", "T", "o", "t", "a", "l", "D", "o", "s", "e", "R", "a", "t", "e", ":", "D", "o", "s", "e">>
    [] s = "RAD:Thermo12:TotalDoseRate:Dose" -> <<"R", "A", "D", ":", "T", "h", "e", "r", "m", "o", "1", "2", ":", "T", "o", "t", "a", "l", "D", "o", "s", "e", "R", "a", "t", "e", ":", "D", "o", "s", "e">>
    [] s = "-SP" -> <<"-", "S", "P">>
    [] s = "-Setpoint" -> <<"-", "S", "e", "t", "p", "o", "i", "n", "t">>
    [] s = "-SP:RBV" -> <<"-", "S", "P", ":", "R", "B", "V">>

\* truth value of a string or None: None and "" are false
Truthy(s) == s # None /\ s # ""

\* str.startswith
startswith(s, prefix) ==
    LET cs == Chars(s)
        cp == Chars(prefix)
    IN  Len(cp) <= Len(cs) /\ SubSeq(cs, 1, Len(cp)) = cp

\* str.endswith
endswith(s, suffix) ==
    LET cs == Chars(s)
        cx == Chars(suffix)
    IN  Len(cx) <= Len(cs) /\ SubSeq(cs, Len(cs) - Len(cx) + 1, Len(cs)) = cx

\* a slice bound as Python normalises it: negative counts from the end, then clamped
SliceIndex(i, n) ==
    IF i < 0 THEN (IF n + i < 0 THEN 0 ELSE n + i)
             ELSE (IF i > n THEN n ELSE i)

\* s[:k]
SliceTo(s, k) == SubSeq(s, 1, SliceIndex(k, Len(s)))

\* s[i:]
SliceFrom(s, i) == SubSeq(s, SliceIndex(i, Len(s)) + 1, Len(s))

\* x in list
InList(x, list) == \E i \in 1..Len(list) : list[i] = x

\* the elements of a sequence
Elements(list) == {list[i] : i \in 1..Len(list)}

\* all(v == x for v in list)
AllEqualTo(list, x) == \A i \in 1..Len(list) : list[i] = x

\* min(a, b)
Min(a, b) == IF a <= b THEN a ELSE b

----------------------------------------------------------------------------
(* MonitorThread: class attributes *)

\* ignored_pvs, lines 23-27
IGNORED_PVS ==
    << "RAD:Thermo3:TotalDoseRate:Dose",
       "RAD:Thermo6:TotalDoseRate:Dose",
       "RAD:Thermo12:TotalDoseRate:Dose" >>

\* set_point_suffixes, line 30
set_point_suffixes == << "-SP", "-Setpoint", "-SP:RBV" >>

----------------------------------------------------------------------------
(* MonitorThread.filter_pvnames, lines 93-116 *)

\* int((i + 1) / total_pvs * 100), i counted from 0; the float product
\* truncates to this integer quotient for every total_pvs below 50
Progress(i, total_pvs) == ((i + 1) * 100) \div total_pvs

\* Keeps without the suffix test of lines 109-110
Keeps_NoSuffixTest(pvname, ign, filter1, filter2) ==
    /\ ~InList(pvname, ign)
    /\ ~(Truthy(filter1) /\ ~startswith(pvname, filter1))

\* whether the loop body reaches line 112 for pvname
Keeps(pvname, ign, filter1, filter2) ==
    /\ ~InList(pvname, ign)
    /\ ~(Truthy(filter1) /\ ~startswith(pvname, filter1))
    /\ ~(Truthy(filter2) /\ ~endswith(pvname, filter2))

RECURSIVE FilterLoop(_, _, _, _, _, _)
\* the for loop of lines 102-114 from position i (counted from 1) on
FilterLoop(names, i, ign, filt, kept, progress) ==
    IF i > Len(names) THEN [names |-> kept, progress |-> progress]
    ELSE IF Keeps(names[i], ign, filt[1], filt[2])
         THEN FilterLoop(names, i + 1, ign, filt,
                         Append(kept, names[i]),
                         Append(progress, Progress(i - 1, Len(names))))
         ELSE FilterLoop(names, i + 1, ign, filt, kept, progress)

\* the names returned and the progress values emitted
filter_pvnames(names, ign, filt) ==
    IF names = <<>> THEN [names |-> <<>>, progress |-> <<>>]
    ELSE FilterLoop(names, 1, ign, filt, <<>>, <<>>)

----------------------------------------------------------------------------
(* Classification, lines 143-145 and 173-227 *)

\* is_set_point_pv
is_set_point_pv(pvname) ==
    \E k \in 1..Len(set_point_suffixes) : endswith(pvname, set_point_suffixes[k])

\* WindowsFrozen comparing every value of the history with the first
WindowsFrozen_WholeHistory(values) ==
    AllEqualTo(values, values[1])

\* WindowsFrozen with first_last_equal as its only test
WindowsFrozen_EdgesOnly(values) ==
    LET num_samples  == Min(NUM_SAMPLES, Len(values))
        first_values == SliceTo(values, num_samples)
        last_values  == SliceFrom(values, 0 - num_samples)
    IN  first_values[1] = last_values[Len(last_values)]

\* WindowsFrozen without first_last_equal
WindowsFrozen_NoEdgeTest(values) ==
    LET num_samples  == Min(NUM_SAMPLES, Len(values))
        first_values == SliceTo(values, num_samples)
        last_values  == SliceFrom(values, 0 - num_samples)
    IN  /\ AllEqualTo(first_values, first_values[1])
        /\ AllEqualTo(last_values, last_values[1])

\* the three tests of lines 193-218 on a non-empty list of values
WindowsFrozen(values) ==
    LET num_samples  == Min(NUM_SAMPLES, Len(values))
        first_values == SliceTo(values, num_samples)
        last_values  == IF Len(values) >= num_samples
                        THEN SliceFrom(values, 0 - num_samples)
                        ELSE values
    IN  IF Len(first_values) < 1 \/ Len(last_values) < 1 THEN FALSE
        ELSE LET all_first_equal  == AllEqualTo(first_values, first_values[1])
                 all_last_equal   == AllEqualTo(last_values, last_values[1])
                 first_last_equal == first_values[1] = last_values[1]
             IN  all_first_equal /\ all_last_equal /\ first_last_equal

\* check_pv_frozen without the set-point override of lines 184-186
check_pv_frozen_NoOverride(store, pvname) ==
    IF pvname \notin DOMAIN store THEN FALSE
    ELSE LET values     == store[pvname].values
             timestamps == store[pvname].timestamps
         IN  IF values = <<>> \/ timestamps = <<>> THEN FALSE
             ELSE IF values[Len(values)] = None THEN FALSE
             ELSE AllEqualTo(values, values[1])

\* check_pv_frozen on the store
check_pv_frozen(store, pvname) ==
    IF pvname \notin DOMAIN store THEN FALSE
    ELSE LET values     == store[pvname].values
             timestamps == store[pvname].timestamps
         IN  IF values = <<>> \/ timestamps = <<>> THEN FALSE
             ELSE IF is_set_point_pv(pvname) THEN TRUE
             ELSE IF values[Len(values)] = None THEN FALSE
             ELSE WindowsFrozen(values)

\* check_pv_connected testing every stored value instead of the last
check_pv_connected_AnyNone(store, pvname) ==
    IF pvname \notin DOMAIN store THEN FALSE
    ELSE LET values == store[pvname].values
         IN  Len(values) > 0 /\ \A i \in 1..Len(values) : values[i] # None

\* check_pv_connected without the length test of line 227
check_pv_connected_NoLengthTest(store, pvname) ==
    IF pvname \notin DOMAIN store THEN FALSE
    ELSE LET values == store[pvname].values
         IN  values = <<>> \/ values[Len(values)] # None

\* check_pv_connected without the None test of line 227
check_pv_connected_NoNoneTest(store, pvname) ==
    IF pvname \notin DOMAIN store THEN FALSE
    ELSE Len(store[pvname].values) > 0

\* check_pv_connected on the store
check_pv_connected(store, pvname) ==
    IF pvname \notin DOMAIN store THEN FALSE
    ELSE LET values == store[pvname].values
         IN  Len(values) > 0 /\ values[Len(values)] # None

----------------------------------------------------------------------------
(* Signals.  Every emission is one record of the log `emitted`; the fields *)
(* a signal does not carry hold a default.  Accents of the status texts    *)
(* are dropped.                                                            *)

\* update_status.emit(text)
Status(text) == [sig |-> "update_status", text |-> text, n |-> 0, names |-> <<>>]

\* update_status.emit(f"{text}{n}")
StatusN(text, n) == [sig |-> "update_status", text |-> text, n |-> n, names |-> <<>>]

\* progress_update.emit(n)
ProgressUpdate(n) == [sig |-> "progress_update", text |-> "", n |-> n, names |-> <<>>]

\* a signal carrying a list of names
ListSignal(sig, names) == [sig |-> sig, text |-> "", n |-> 0, names |-> names]

\* the progress_update emissions of one filter_pvnames call
ProgressSignals(progress) == [k \in 1..Len(progress) |-> ProgressUpdate(progress[k])]

\* list_pvs reporting the listed PVs as the total
list_pvs_TotalOfListed(total_pvs, ctrl_frozen, ctrl_disconnected) ==
    << StatusN("Quantidade de PVs analisadas = ", ctrl_frozen + ctrl_disconnected),
       StatusN("Quantidade de PVs congeladas = ", ctrl_frozen),
       StatusN("Quantidade de PVs desconectadas = ", ctrl_disconnected),
       Status("Analise finalizada.") >>

\* list_pvs, lines 253-258
list_pvs(total_pvs, ctrl_frozen, ctrl_disconnected) ==
    << StatusN("Quantidade de PVs analisadas = ", total_pvs),
       StatusN("Quantidade de PVs congeladas = ", ctrl_frozen),
       StatusN("Quantidade de PVs desconectadas = ", ctrl_disconnected),
       Status("Analise finalizada.") >>

\* the emissions that end check_pvs, lines 249-251
CycleReport(frozen_pvs, disconnected_pvs, total_pvs, ctrl_frozen, ctrl_disconnected) ==
    << ListSignal("frozen_pvs_signal", frozen_pvs),
       ListSignal("not_stored_pvs_signal", disconnected_pvs) >>
    \o list_pvs(total_pvs, ctrl_frozen, ctrl_disconnected)

----------------------------------------------------------------------------
(* The history store: self.pv_values *)

EmptyStore == [x \in {} |-> [values |-> <<>>, timestamps |-> <<>>]]

EmptyHistory == [values |-> <<>>, timestamps |-> <<>>]

\* lines 158-159 and 165-166: create the entry when the key is missing
WithEntry(store, pvname) ==
    [x \in DOMAIN store \cup {pvname} |->
        IF x \in DOMAIN store THEN store[x] ELSE EmptyHistory]

\* the key order of the dict after lines 158-159 / 165-166
WithKey(keys, pvname) == IF InList(pvname, keys) THEN keys ELSE Append(keys, pvname)

\* the value stored in place of the history, as the first start_pv_monitor
\* (lines 121 and 125) stores it
AppendValue_Overwrite(store, pvname, value) ==
    [store EXCEPT ![pvname].values = <<value>>]

\* self.pv_values[pvname]["values"].append(value), lines 160 and 167
AppendValue(store, pvname, value) ==
    [store EXCEPT ![pvname].values = Append(@, value)]

\* self.pv_values[pvname]["timestamps"].append(time.time()), lines 161 and 168
AppendTimestamp(store, pvname) ==
    [store EXCEPT ![pvname].timestamps = Append(@, Timestamp)]

----------------------------------------------------------------------------
(* What the environment of the run specification may supply *)

\* self.filters as MainWindow.start_monitor_thread builds it (lines 351-354)
FilterChoices ==
    { <<"", None>>, <<"", "Temp-Mon">>, <<"SI-01", "Temp-Mon">> }

\* what getAllPVs('*') may return; <<>> stands for both None and []
Catalogs ==
    { <<>>,
      <<"RAD:Thermo3:TotalDoseRate:Dose", "SI-01:Curr-SP", "SI-02:Temp-Mon">>,
      <<"SI-01:Volt-SP:RBV", "SI-01:Pos-Setpoint">> }

\* check_pvs before its first call: pc is its position ("idle" between calls),
\* i the position of the loop of line 237 in the keys, then its locals;
\* last_is_none[k] tells whether line 227 read None as the last value of the
\* k-th key in this cycle.  The record of a finished cycle stays until the
\* next one begins.
IdleCycle ==
    [pc |-> "idle", i |-> 1, frozen_pvs |-> <<>>, disconnected_pvs |-> <<>>,
     ctrl_frozen |-> 0, ctrl_disconnected |-> 0, last_is_none |-> <<>>]

\* no function has been called directly
NoCall == [op |-> "none"]

----------------------------------------------------------------------------
(* The run specification: MonitorThread from construction on *)

\* __init__, lines 32-43, with the filters MainWindow passes
Init ==
    /\ pc = "Idle"
    /\ conn = None
    /\ filters \in FilterChoices
    /\ ignored_pvs = IGNORED_PVS
    /\ all_pvnames = <<>>
    /\ filtered_pvnames = <<>>
    /\ idx = 1
    /\ pv_keys = <<>>
    /\ pv_values = EmptyStore
    /\ pv_monitors = {}
    /\ timer = None
    /\ running = TRUE
    /\ cb = None
    /\ cyc = IdleCycle
    /\ ncycles = 0
    /\ emitted = <<>>
    /\ report = <<>>
    /\ ret = NoCall

\* QThread.start(), line 364: run() begins
Start ==
    /\ pc = "Idle"
    /\ pc' = "create_connector"
    /\ UNCHANGED <<conn, filters, ignored_pvs, all_pvnames, filtered_pvnames, idx,
                   pv_keys, pv_values, pv_monitors, timer, running, cb, cyc,
                   ncycles, emitted, report, ret>>

\* lines 52-55 with create_connector (79-86): connected within the timeout or not
CreateConnector ==
    /\ pc = "create_connector"
    /\ \E connected \in BOOLEAN :
          IF connected
          THEN /\ conn' = "ClientArchiver"
               /\ pc' = "get_all_pvnames"
               /\ UNCHANGED emitted
          ELSE /\ conn' = None
               /\ emitted' = Append(emitted,
                                Status("Nao foi possivel conectar ao banco de dados."))
               /\ pc' = "returned"
    /\ UNCHANGED <<filters, ignored_pvs, all_pvnames, filtered_pvnames, idx,
                   pv_keys, pv_values, pv_monitors, timer, running, cb, cyc,
                   ncycles, report, ret>>

\* GetAllPVNames without the return of lines 58-60
GetAllPVNames_NoEmptyCheck ==
    /\ pc = "get_all_pvnames"
    /\ \E names \in Catalogs : all_pvnames' = names
    /\ pc' = "filter_pvnames"
    /\ UNCHANGED <<conn, filters, ignored_pvs, filtered_pvnames, idx,
                   pv_keys, pv_values, pv_monitors, timer, running, cb, cyc,
                   ncycles, emitted, report, ret>>

\* lines 57-60 with get_all_pvnames (88-91)
GetAllPVNames ==
    /\ pc = "get_all_pvnames"
    /\ \E names \in Catalogs :
          /\ all_pvnames' = names
          /\ IF names = <<>>
             THEN /\ emitted' = Append(emitted, Status("Nenhuma PV encontrada."))
                  /\ pc' = "returned"
             ELSE /\ pc' = "filter_pvnames"
                  /\ UNCHANGED emitted
    /\ UNCHANGED <<conn, filters, ignored_pvs, filtered_pvnames, idx,
                   pv_keys, pv_values, pv_monitors, timer, running, cb, cyc,
                   ncycles, report, ret>>

\* lines 62-64
FilterPVNames ==
    /\ pc = "filter_pvnames"
    /\ LET r == filter_pvnames(all_pvnames, ignored_pvs, filters)
       IN  /\ filtered_pvnames' = r.names
           /\ emitted' = emitted \o ProgressSignals(r.progress)
                           \o << ListSignal("updt_pv_log", r.names),
                                 Status("Listagem e filtragem concluidas.") >>
    /\ idx' = 1
    /\ pc' = "start_pv_monitor"
    /\ UNCHANGED <<conn, filters, ignored_pvs, all_pvnames,
                   pv_keys, pv_values, pv_monitors, timer, running, cb, cyc,
                   ncycles, report, ret>>

\* start_pv_monitor without the bootstrap append of lines 164-168
BootstrapRead_NoAppend ==
    /\ pc = "start_pv_monitor"
    /\ idx <= Len(filtered_pvnames)
    /\ pc' = "camonitor"
    /\ UNCHANGED <<conn, filters, ignored_pvs, all_pvnames, filtered_pvnames, idx,
                   pv_keys, pv_values, pv_monitors, timer, running, cb, cyc,
                   ncycles, emitted, report, ret>>

\* start_pv_monitor, lines 164-168: the synchronous read (get_pv_value, 136-141)
\* and the append of the first sample
BootstrapRead ==
    /\ pc = "start_pv_monitor"
    /\ idx <= Len(filtered_pvnames)
    /\ \E initial_value \in Values :
          LET pvname == filtered_pvnames[idx]
          IN  /\ pv_values' = AppendTimestamp(
                                 AppendValue(WithEntry(pv_values, pvname),
                                             pvname, initial_value),
                                 pvname)
              /\ pv_keys' = WithKey(pv_keys, pvname)
    /\ pc' = "camonitor"
    /\ UNCHANGED <<conn, filters, ignored_pvs, all_pvnames, filtered_pvnames, idx,
                   pv_monitors, timer, running, cb, cyc, ncycles, emitted, report, ret>>

\* start_pv_monitor, line 171: the subscription is opened
Camonitor ==
    /\ pc = "camonitor"
    /\ pv_monitors' = pv_monitors \cup {filtered_pvnames[idx]}
    /\ idx' = idx + 1
    /\ pc' = "start_pv_monitor"
    /\ UNCHANGED <<conn, filters, ignored_pvs, all_pvnames, filtered_pvnames,
                   pv_keys, pv_values, timer, running, cb, cyc, ncycles, emitted,
                   report, ret>>

\* start_frozen_check called before the loop of lines 69-72 has ended
StartFrozenCheck_BeforeLoop ==
    /\ pc = "start_pv_monitor"
    /\ emitted' = Append(emitted, Status("Iniciando monitoramento..."))
    /\ timer' = "active"
    /\ pc' = "check_pvs"
    /\ UNCHANGED <<conn, filters, ignored_pvs, all_pvnames, filtered_pvnames, idx,
                   pv_keys, pv_values, pv_monitors, running, cb, cyc, ncycles,
                   report, ret>>

\* lines 70-74 and start_frozen_check up to line 152: the timer is started
StartFrozenCheck ==
    /\ pc = "start_pv_monitor"
    /\ idx > Len(filtered_pvnames)
    /\ emitted' = Append(emitted, Status("Iniciando monitoramento..."))
    /\ timer' = "active"
    /\ pc' = "check_pvs"
    /\ UNCHANGED <<conn, filters, ignored_pvs, all_pvnames, filtered_pvnames, idx,
                   pv_keys, pv_values, pv_monitors, running, cb, cyc, ncycles,
                   report, ret>>

\* check_pvs, lines 231-235: the locals of a new cycle
CycleBegin ==
    /\ cyc.pc = "idle"
    /\ cyc' = [IdleCycle EXCEPT !.pc = "scan"]
    /\ ncycles' = ncycles + 1

\* line 153: the first check, called by the worker itself
FirstCheck ==
    /\ pc = "check_pvs"
    /\ CycleBegin
    /\ pc' = "first_cycle"
    /\ report' = <<>>
    /\ UNCHANGED <<conn, filters, ignored_pvs, all_pvnames, filtered_pvnames, idx,
                   pv_keys, pv_values, pv_monitors, timer, running, cb, emitted,
                   ret>>

\* line 150: the timer's timeout calls check_pvs.  The timer lives in the
\* worker thread, so a tick is served only once run() has returned, and
\* never while another cycle is running.  What the cycle before has emitted
\* stays with the receiver until this cycle emits.
TimerTick ==
    /\ pc = "returned"
    /\ timer = "active"
    /\ ncycles < MaxCycles
    /\ CycleBegin
    /\ UNCHANGED <<pc, conn, filters, ignored_pvs, all_pvnames, filtered_pvnames,
                   idx, pv_keys, pv_values, pv_monitors, timer, running, cb,
                   emitted, report, ret>>

\* values[-1] is None, as line 227 evaluates it (values is not empty)
LastIsNone(store, pvname) ==
    LET values == store[pvname].values
    IN  values # <<>> /\ values[Len(values)] = None

\* CycleConnected without the continue of line 242
CycleConnected_NoContinue ==
    /\ cyc.pc = "scan"
    /\ cyc.i <= Len(pv_keys)
    /\ LET pvname == pv_keys[cyc.i]
           none   == LastIsNone(pv_values, pvname)
       IN  IF ~check_pv_connected(pv_values, pvname)
           THEN cyc' = [cyc EXCEPT !.disconnected_pvs = Append(@, pvname),
                                   !.ctrl_disconnected = @ + 1,
                                   !.pc = "frozen",
                                   !.last_is_none = Append(@, none)]
           ELSE cyc' = [cyc EXCEPT !.pc = "frozen",
                                   !.last_is_none = Append(@, none)]
    /\ UNCHANGED <<pc, conn, filters, ignored_pvs, all_pvnames, filtered_pvnames,
                   idx, pv_keys, pv_values, pv_monitors, timer, running, cb,
                   ncycles, emitted, report, ret>>

\* lines 237-242 for one key: the connectivity test
CycleConnected ==
    /\ cyc.pc = "scan"
    /\ cyc.i <= Len(pv_keys)
    /\ LET pvname == pv_keys[cyc.i]
           none   == LastIsNone(pv_values, pvname)
       IN  IF ~check_pv_connected(pv_values, pvname)
           THEN cyc' = [cyc EXCEPT !.disconnected_pvs = Append(@, pvname),
                                   !.ctrl_disconnected = @ + 1,
                                   !.i = @ + 1,
                                   !.last_is_none = Append(@, none)]
           ELSE cyc' = [cyc EXCEPT !.pc = "frozen",
                                   !.last_is_none = Append(@, none)]
    /\ UNCHANGED <<pc, conn, filters, ignored_pvs, all_pvnames, filtered_pvnames,
                   idx, pv_keys, pv_values, pv_monitors, timer, running, cb,
                   ncycles, emitted, report, ret>>

\* CycleFrozen keeping only the last sample of the history it has tested
CycleFrozen_TrimsHistory ==
    /\ cyc.pc = "frozen"
    /\ LET pvname == pv_keys[cyc.i]
       IN  /\ IF check_pv_frozen(pv_values, pvname)
              THEN cyc' = [cyc EXCEPT !.frozen_pvs = Append(@, pvname),
                                      !.ctrl_frozen = @ + 1,
                                      !.i = @ + 1,
                                      !.pc = "scan"]
              ELSE cyc' = [cyc EXCEPT !.i = @ + 1, !.pc = "scan"]
           /\ pv_values' =
                 [pv_values EXCEPT ![pvname].values = SubSeq(@, Len(@), Len(@)),
                                   ![pvname].timestamps = SubSeq(@, Len(@), Len(@))]
    /\ UNCHANGED <<pc, conn, filters, ignored_pvs, all_pvnames, filtered_pvnames,
                   idx, pv_keys, pv_monitors, timer, running, cb,
                   ncycles, emitted, report, ret>>

\* lines 245-247 for the same key: the freeze test, which reads the lists
\* of the store as they are at this moment
CycleFrozen ==
    /\ cyc.pc = "frozen"
    /\ LET pvname == pv_keys[cyc.i]
       IN  IF check_pv_frozen(pv_values, pvname)
           THEN cyc' = [cyc EXCEPT !.frozen_pvs = Append(@, pvname),
                                   !.ctrl_frozen = @ + 1,
                                   !.i = @ + 1,
                                   !.pc = "scan"]
           ELSE cyc' = [cyc EXCEPT !.i = @ + 1, !.pc = "scan"]
    /\ UNCHANGED <<pc, conn, filters, ignored_pvs, all_pvnames, filtered_pvnames,
                   idx, pv_keys, pv_values, pv_monitors, timer, running, cb,
                   ncycles, emitted, report, ret>>

\* lines 249-251 with list_pvs: the report of the cycle; the first check
\* returns to run()
CycleEmit ==
    /\ cyc.pc = "scan"
    /\ cyc.i > Len(pv_keys)
    /\ report' = CycleReport(cyc.frozen_pvs, cyc.disconnected_pvs,
                             Len(pv_keys), cyc.ctrl_frozen, cyc.ctrl_disconnected)
    /\ cyc' = [cyc EXCEPT !.pc = "idle"]
    /\ pc' = IF pc = "first_cycle" THEN "finish" ELSE pc
    /\ UNCHANGED <<conn, filters, ignored_pvs, all_pvnames, filtered_pvnames,
                   idx, pv_keys, pv_values, pv_monitors, timer, running, cb,
                   ncycles, emitted, ret>>

\* lines 76-77: run() returns
RunFinish ==
    /\ pc = "finish"
    /\ emitted' = emitted \o << ProgressUpdate(100),
                                Status("Processamento Concluido.") >>
    /\ pc' = "returned"
    /\ UNCHANGED <<conn, filters, ignored_pvs, all_pvnames, filtered_pvnames,
                   idx, pv_keys, pv_values, pv_monitors, timer, running, cb, cyc,
                   ncycles, report, ret>>

\* number of values recorded for pvname, 0 without an entry
HistoryLen(store, pvname) ==
    IF pvname \in DOMAIN store THEN Len(store[pvname].values) ELSE 0

\* callback, lines 158-160: a value pushed by the source for a subscribed PV;
\* the next callback is delivered when this one has returned
CallbackValue ==
    /\ cb = None
    /\ \E pvname \in pv_monitors, value \in Values :
          /\ HistoryLen(pv_values, pvname) < MaxHist
          /\ pv_values' = AppendValue(WithEntry(pv_values, pvname), pvname, value)
          /\ pv_keys' = WithKey(pv_keys, pvname)
          /\ cb' = pvname
    /\ UNCHANGED <<pc, conn, filters, ignored_pvs, all_pvnames, filtered_pvnames,
                   idx, pv_monitors, timer, running, cyc, ncycles, emitted, report,
                   ret>>

\* callback, line 161
CallbackTimestamp ==
    /\ cb # None
    /\ pv_values' = AppendTimestamp(pv_values, cb)
    /\ cb' = None
    /\ UNCHANGED <<pc, conn, filters, ignored_pvs, all_pvnames, filtered_pvnames,
                   idx, pv_keys, pv_monitors, timer, running, cyc, ncycles,
                   emitted, report, ret>>

\* stop, lines 45-49, called from the GUI thread at any moment after start();
\* a call that finds running False and no active timer only repeats the
\* status and is left out
Stop ==
    /\ pc # "Idle"
    /\ running \/ timer = "active"
    /\ running' = FALSE
    /\ timer' = IF timer # None THEN "stopped" ELSE timer
    /\ emitted' = Append(emitted, Status("Monitoramento interrompido."))
    /\ UNCHANGED <<pc, conn, filters, ignored_pvs, all_pvnames, filtered_pvnames,
                   idx, pv_keys, pv_values, pv_monitors, cb, cyc, ncycles, report,
                   ret>>

Next ==
    \/ Start
    \/ CreateConnector
    \/ GetAllPVNames
    \/ FilterPVNames
    \/ BootstrapRead
    \/ Camonitor
    \/ StartFrozenCheck
    \/ FirstCheck
    \/ TimerTick
    \/ CycleConnected
    \/ CycleFrozen
    \/ CycleEmit
    \/ RunFinish
    \/ CallbackValue
    \/ CallbackTimestamp
    \/ Stop

Spec == Init /\ [][Next]_vars

----------------------------------------------------------------------------
(* The detector specification: check_pv_frozen and check_pv_connected      *)
(* called directly on a store with one entry.  A history is a              *)
(* concatenation of at most MaxRuns runs of one value, so that histories   *)
(* longer than the window of 15 samples are covered; its timestamps are    *)
(* as many as its values or, as between lines 160 and 161, one fewer.      *)

\* n times the value v
Repeat(v, n) == [i \in 1..n |-> v]

\* the lengths of a run: short ones and the ones around the window
RunLengths == {1, NUM_SAMPLES - 1, NUM_SAMPLES}

RECURSIVE RunHistories(_)
\* the lists of values made of at most r runs
RunHistories(r) ==
    IF r = 0 THEN { <<>> }
    ELSE LET shorter == RunHistories(r - 1)
         IN  shorter \cup { h \o Repeat(v, n) :
                              h \in shorter, v \in Values, n \in RunLengths }

\* the lists of values of the detector specification
DetectHistories ==
    RunHistories(MaxRuns) \cup { <<"1", "2", "1", "2", "1">>,
                                 <<"1", "1", "1", "1", "1">> }

\* the names of the detector specification
DetectNames == {"SI-01:Temp-Mon", "SI-01:Curr-SP", "SI-01:DISP"}

\* the numbers of timestamps a history of n values can have
TimestampCounts(n) == IF n <= 1 THEN {n} ELSE {n - 1, n}

\* the variables only the run specification uses, at their initial values
RunVarsIdle ==
    /\ conn = None
    /\ idx = 1
    /\ filtered_pvnames = <<>>
    /\ pv_monitors = {}
    /\ timer = None
    /\ running = TRUE
    /\ cb = None
    /\ cyc = IdleCycle
    /\ ncycles = 0
    /\ emitted = <<>>
    /\ report = <<>>
    /\ ret = NoCall

InitDetect ==
    /\ pc = "direct_call"
    /\ RunVarsIdle
    /\ filters = <<"", None>>
    /\ ignored_pvs = IGNORED_PVS
    /\ all_pvnames = <<>>
    /\ \E key \in DetectNames, values \in DetectHistories :
          \E n \in TimestampCounts(Len(values)) :
             /\ pv_keys = <<key>>
             /\ pv_values = [x \in {key} |->
                               [values |-> values, timestamps |-> Repeat(Timestamp, n)]]

\* check_pv_frozen(pvname) called on the store
CallCheckPvFrozen ==
    /\ pc = "direct_call"
    /\ \E pvname \in DetectNames :
          ret' = [op |-> "check_pv_frozen", pvname |-> pvname,
                  result |-> check_pv_frozen(pv_values, pvname)]
    /\ UNCHANGED <<pc, conn, filters, ignored_pvs, all_pvnames, filtered_pvnames,
                   idx, pv_keys, pv_values, pv_monitors, timer, running, cb, cyc,
                   ncycles, emitted, report>>

\* check_pv_connected(pvname) called on the store
CallCheckPvConnected ==
    /\ pc = "direct_call"
    /\ \E pvname \in DetectNames :
          ret' = [op |-> "check_pv_connected", pvname |-> pvname,
                  result |-> check_pv_connected(pv_values, pvname)]
    /\ UNCHANGED <<pc, conn, filters, ignored_pvs, all_pvnames, filtered_pvnames,
                   idx, pv_keys, pv_values, pv_monitors, timer, running, cb, cyc,
                   ncycles, emitted, report>>

NextDetect ==
    \/ CallCheckPvFrozen
    \/ CallCheckPvConnected

SpecDetect == InitDetect /\ [][NextDetect]_vars

----------------------------------------------------------------------------
(* The filter specification: filter_pvnames called directly *)

\* the candidate names
FilterNames ==
    {"SI-01:Temp-Mon", "A", "SI-02:Temp-Mon", "SI-01:Other",
     "RAD:Thermo3:TotalDoseRate:Dose"}

\* the lists of candidate names
NameLists == UNION { [1..n -> FilterNames] : n \in 0..MaxNames }

\* self.filters
FilterSpecs == { <<f1, f2>> : f1 \in {"", "SI-01"}, f2 \in {None, "Temp-Mon"} }

\* self.ignored_pvs: the list of lines 23-27, or one set by the caller
IgnoreLists == { IGNORED_PVS, <<"A">> }

InitFilter ==
    /\ pc = "direct_call"
    /\ RunVarsIdle
    /\ filters \in FilterSpecs
    /\ ignored_pvs \in IgnoreLists
    /\ all_pvnames \in NameLists
    /\ pv_keys = <<>>
    /\ pv_values = EmptyStore

\* filter_pvnames(all_pvnames) called
CallFilterPVNames ==
    /\ pc = "direct_call"
    /\ ret.op = "none"
    /\ LET r == filter_pvnames(all_pvnames, ignored_pvs, filters)
       IN  /\ ret' = [op |-> "filter_pvnames", names |-> r.names,
                      progress |-> r.progress]
           /\ emitted' = emitted \o ProgressSignals(r.progress)
    /\ UNCHANGED <<pc, conn, filters, ignored_pvs, all_pvnames, filtered_pvnames,
                   idx, pv_keys, pv_values, pv_monitors, timer, running, cb, cyc,
                   ncycles, report>>

NextFilter == CallFilterPVNames

SpecFilter == InitFilter /\ [][NextFilter]_vars

----------------------------------------------------------------------------
(* The cycle specification: check_pvs called directly on a store of one or *)
(* two entries, whose histories may also be empty, with no callback        *)
(* running.  The run specification never holds an empty history; the code  *)
(* of check_pv_connected (line 227) provides for one.                      *)

\* the lists of at most n values
ShortHistories(n) == UNION { [1..m -> Values] : m \in 0..n }

\* the names of the cycle specification, in the order of the keys
CycleNames == <<"SI-01:Curr-SP", "SI-02:Temp-Mon">>

\* the key sequences of the cycle specification: one name, or both
CycleKeys == { <<CycleNames[1]>>, <<CycleNames[2]>>, CycleNames }

InitCycle ==
    /\ pc = "direct_call"
    /\ RunVarsIdle
    /\ filters = <<"", None>>
    /\ ignored_pvs = IGNORED_PVS
    /\ all_pvnames = <<>>
    /\ pv_keys \in CycleKeys
    /\ \E histories \in [Elements(pv_keys) -> ShortHistories(MaxHist)] :
          pv_values = [x \in Elements(pv_keys) |->
                         [values |-> histories[x],
                          timestamps |-> Repeat(Timestamp, Len(histories[x]))]]

\* check_pvs() called on the store
CallCheckPvs ==
    /\ pc = "direct_call"
    /\ ncycles = 0
    /\ CycleBegin
    /\ UNCHANGED <<pc, conn, filters, ignored_pvs, all_pvnames, filtered_pvnames,
                   idx, pv_keys, pv_values, pv_monitors, timer, running, cb,
                   emitted, report, ret>>

NextCycle ==
    \/ CallCheckPvs
    \/ CycleConnected
    \/ CycleFrozen
    \/ CycleEmit

SpecCycle == InitCycle /\ [][NextCycle]_vars

----------------------------------------------------------------------------
(* Notions the properties share *)

\* the frozen list of the latest report
ReportedFrozen == report[1].names

\* the disconnected list of the latest report
ReportedDisconnected == report[2].names

\* the names of the model that end in '-SP', '-Setpoint' or '-SP:RBV'
SetPointNames == {"SI-01:Curr-SP", "SI-01:Volt-SP:RBV", "SI-01:Pos-Setpoint"}

\* a sequence without a repeated element
NoDuplicates(list) ==
    \A i, j \in 1..Len(list) : list[i] = list[j] => i = j

\* the characters of name begin with those of prefix
BeginsWith(name, prefix) ==
    \A i \in 1..Len(Chars(prefix)) :
        i <= Len(Chars(name)) /\ Chars(name)[i] = Chars(prefix)[i]

\* the characters of name end with those of suffix
EndsWith(name, suffix) ==
    LET d == Len(Chars(name)) - Len(Chars(suffix))
    IN  d >= 0 /\ \A i \in 1..Len(Chars(suffix)) : Chars(name)[d + i] = Chars(suffix)[i]

\* a filter that is given: neither None nor empty
Given(f) == f \notin {None, ""}

----------------------------------------------------------------------------
(* C1: for a PV that is not a set point and a non-empty history whose last *)
(* value is not None, check_pv_frozen returns True exactly when, with      *)
(* k = min(15, n), the first k values all equal the first value, the last  *)
(* k values all equal the first of them, and these two values are equal.   *)
C1_FrozenIffWindows ==
    (/\ ret.op = "check_pv_frozen"
     /\ ret.pvname \in DOMAIN pv_values
     /\ ret.pvname \notin SetPointNames) =>
        LET values == pv_values[ret.pvname].values
            n == Len(values)
            k == IF n < 15 THEN n ELSE 15
        IN  (n >= 1 /\ values[n] # None) =>
               (ret.result <=>
                   /\ \A i \in 1..k : values[i] = values[1]
                   /\ \A i \in (n - k + 1)..n : values[i] = values[n - k + 1]
                   /\ values[1] = values[n - k + 1])

\* a frozen verdict on a history of more than 30 values that are not all equal
C1_Witness ==
    /\ ret.op = "check_pv_frozen"
    /\ ret.pvname \in DOMAIN pv_values
    /\ ret.pvname \notin SetPointNames
    /\ ret.result
    /\ Len(pv_values[ret.pvname].values) > 30
    /\ \E i \in 1..Len(pv_values[ret.pvname].values) :
          pv_values[ret.pvname].values[i] # pv_values[ret.pvname].values[1]

(* C4: filter_pvnames returns, in their order, exactly the names that are  *)
(* not in the ignore list, begin with the prefix when one is given and end *)
(* with the suffix when one is given.                                      *)
C4_FilterExact ==
    ret.op = "filter_pvnames" =>
        ret.names =
            SelectSeq(all_pvnames,
                      LAMBDA name :
                          /\ name \notin Elements(ignored_pvs)
                          /\ Given(filters[1]) => BeginsWith(name, filters[1])
                          /\ Given(filters[2]) => EndsWith(name, filters[2]))

\* the example: ignore list [A], prefix SI-01, suffix Temp-Mon
C4_Witness ==
    /\ ret.op = "filter_pvnames"
    /\ ignored_pvs = <<"A">>
    /\ filters = <<"SI-01", "Temp-Mon">>
    /\ all_pvnames = <<"SI-01:Temp-Mon", "A", "SI-02:Temp-Mon", "SI-01:Other">>
    /\ ret.names = <<"SI-01:Temp-Mon">>

----------------------------------------------------------------------------
(* C2: in a check cycle, a PV whose last recorded value is None when the   *)
(* cycle tests it is put in the disconnected list and not in the frozen    *)
(* list, while the cycle runs and in its report, set point or not.         *)
C2_DisconnectPrecedence ==
    \A k \in 1..Len(cyc.last_is_none) :
        cyc.last_is_none[k] =>
            /\ InList(pv_keys[k], cyc.disconnected_pvs)
            /\ ~InList(pv_keys[k], cyc.frozen_pvs)
            /\ (cyc.pc = "idle" =>
                   /\ InList(pv_keys[k], ReportedDisconnected)
                   /\ ~InList(pv_keys[k], ReportedFrozen))

\* a reported cycle that found the set point with None as its last value,
\* its values being all equal
C2_Witness ==
    /\ cyc.pc = "idle"
    /\ report # <<>>
    /\ \E k \in 1..Len(cyc.last_is_none) :
          /\ cyc.last_is_none[k]
          /\ pv_keys[k] \in SetPointNames
          /\ pv_values[pv_keys[k]].values = <<None, None>>

(* C3: a set point whose last recorded value is not None when the cycle    *)
(* tests it is in the frozen list of that cycle's report, whatever its     *)
(* history holds.                                                          *)
C3_SetPointOverride ==
    cyc.pc = "idle" =>
        \A k \in 1..Len(cyc.last_is_none) :
            (pv_keys[k] \in SetPointNames /\ ~cyc.last_is_none[k]) =>
                InList(pv_keys[k], ReportedFrozen)

\* a set point reported frozen with the all-distinct history [None, "1"]
C3_Witness ==
    /\ cyc.pc = "idle"
    /\ report # <<>>
    /\ \E k \in 1..Len(cyc.last_is_none) :
          /\ pv_keys[k] \in SetPointNames
          /\ ~cyc.last_is_none[k]
          /\ pv_values[pv_keys[k]].values = <<None, "1">>
          /\ InList(pv_keys[k], ReportedFrozen)

(* C5: the freeze test of a check cycle never reads a history whose values *)
(* and timestamps differ in length.                                        *)
C5_NoTornRead ==
    [][ (cyc.pc = "frozen" /\ cyc'.pc = "scan") =>
            Len(pv_values[pv_keys[cyc.i]].values)
                = Len(pv_values[pv_keys[cyc.i]].timestamps) ]_vars

(* C6: every history in the store has a first sample; an entry is created  *)
(* only by the bootstrap read of a PV that is not subscribed yet, with     *)
(* exactly that one sample; the first sample never changes; a subscribed   *)
(* PV has its entry.                                                       *)
C6_BootstrapFirst ==
    /\ [](\A p \in DOMAIN pv_values :
              /\ Len(pv_values[p].values) >= 1
              /\ Len(pv_values[p].timestamps) >= 1)
    /\ [](pv_monitors \subseteq DOMAIN pv_values)
    /\ [][ \A p \in DOMAIN pv_values' :
              IF p \in DOMAIN pv_values
              THEN pv_values'[p].values[1] = pv_values[p].values[1]
              ELSE /\ pc = "start_pv_monitor" /\ pc' = "camonitor"
                   /\ p = filtered_pvnames[idx]
                   /\ p \notin pv_monitors
                   /\ cb' = cb
                   /\ Len(pv_values'[p].values) = 1
                   /\ Len(pv_values'[p].timestamps) = 1 ]_vars

\* a subscribed PV whose callback has appended a second sample
C6_Witness ==
    \E p \in pv_monitors :
        /\ Len(pv_values[p].values) = 2
        /\ Len(pv_values[p].timestamps) = 2

\* stop() has reported its status
StopReported == InList(Status("Monitoramento interrompido."), emitted)

(* C7: once stop() has been called, the timer is not active, the final     *)
(* status has been reported and no check cycle begins.                     *)
C7_StopStops ==
    /\ [](~running => (timer # "active" /\ StopReported))
    /\ [][ ~running => ~(cyc.pc = "idle" /\ cyc'.pc # "idle") ]_vars

\* run() has returned at line 55 or at line 60
Aborted == pc = "returned" /\ (conn = None \/ all_pvnames = <<>>)

\* what run() itself has emitted: the log without the status of stop()
RunEmitted ==
    SelectSeq(emitted, LAMBDA e : e # Status("Monitoramento interrompido."))

(* C8: when the connection fails or the listing is empty, run() has        *)
(* emitted exactly the one status message, nothing was bootstrapped or     *)
(* subscribed, no timer exists, no check cycle has run, and the run stays  *)
(* returned.                                                               *)
C8_AbortIsClean ==
    /\ [](Aborted =>
            /\ RunEmitted =
                 << IF conn = None
                    THEN Status("Nao foi possivel conectar ao banco de dados.")
                    ELSE Status("Nenhuma PV encontrada.") >>
            /\ pv_keys = <<>>
            /\ DOMAIN pv_values = {}
            /\ pv_monitors = {}
            /\ timer = None
            /\ ncycles = 0
            /\ report = <<>>)
    /\ [][ Aborted => (Aborted' /\ conn' = conn) ]_vars

\* the listing came back empty on a working connection
C8_Witness == pc = "returned" /\ conn # None /\ all_pvnames = <<>>

(* C9: the frozen and the disconnected list of a cycle are disjoint, hold  *)
(* no name twice and only monitored names, and the counts of the report    *)
(* do not add up to more than the total.                                   *)
C9_ListsDisjoint ==
    /\ NoDuplicates(cyc.frozen_pvs)
    /\ NoDuplicates(cyc.disconnected_pvs)
    /\ Elements(cyc.frozen_pvs) \cap Elements(cyc.disconnected_pvs) = {}
    /\ Elements(cyc.frozen_pvs) \cup Elements(cyc.disconnected_pvs)
          \subseteq Elements(filtered_pvnames)
    /\ report # <<>> =>
          /\ NoDuplicates(ReportedFrozen)
          /\ NoDuplicates(ReportedDisconnected)
          /\ Elements(ReportedFrozen) \cap Elements(ReportedDisconnected) = {}
          /\ Elements(ReportedFrozen) \cup Elements(ReportedDisconnected)
                \subseteq Elements(filtered_pvnames)
          /\ report[4].n + report[5].n <= report[3].n

\* a report with a frozen and a disconnected PV
C9_Witness ==
    /\ report # <<>>
    /\ ReportedFrozen # <<>>
    /\ ReportedDisconnected # <<>>

(* C10: a check cycle that has returned has emitted, in this order, the    *)
(* frozen list, the disconnected list and the summary; the total is the    *)
(* number of PVs in the store and the two counts are the lengths of the    *)
(* two lists.                                                              *)
C10_ReportEveryCycle ==
    /\ (ncycles > 0 /\ cyc.pc = "idle") => report # <<>>
    /\ report # <<>> =>
          /\ Len(report) = 6
          /\ report[1].sig = "frozen_pvs_signal"
          /\ report[2].sig = "not_stored_pvs_signal"
          /\ report[3] = StatusN("Quantidade de PVs analisadas = ",
                                 Cardinality(DOMAIN pv_values))
          /\ report[4] = StatusN("Quantidade de PVs congeladas = ",
                                 Len(ReportedFrozen))
          /\ report[5] = StatusN("Quantidade de PVs desconectadas = ",
                                 Len(ReportedDisconnected))
          /\ report[6] = Status("Analise finalizada.")

\* a report over one monitored PV, neither frozen nor disconnected
C10_Witness ==
    /\ report # <<>>
    /\ report[3].n = 1
    /\ ReportedFrozen = <<>>
    /\ ReportedDisconnected = <<>>

----------------------------------------------------------------------------
----------------------------------------------------------------------------
(* C12 as claimed: filter_pvnames emits one progress value for each        *)
(* candidate name, skipped or kept: N candidates give exactly N values.    *)
C12_ProgressPerCandidate ==
    ret.op = "filter_pvnames" => Len(ret.progress) = Len(all_pvnames)

----------------------------------------------------------------------------
(* C13 as claimed: for N >= 1 candidate names the progress values emitted  *)
(* by filter_pvnames never decrease, lie within 0..100, and the last one,  *)
(* emitted after the N-th candidate, is 100.                               *)
C13_ProgressReaches100 ==
    (ret.op = "filter_pvnames" /\ Len(all_pvnames) >= 1) =>
        /\ \A i \in 1..Len(ret.progress) : ret.progress[i] \in 0..100
        /\ \A i \in 1..Len(ret.progress) : \A j \in i..Len(ret.progress) :
              ret.progress[i] <= ret.progress[j]
        /\ ret.progress # <<>>
        /\ ret.progress[Len(ret.progress)] = 100

----------------------------------------------------------------------------
(* C14: for a PV that is not a set point and a history of fewer than 15    *)
(* samples whose last value is not None, check_pv_frozen returns True      *)
(* exactly when all the samples are equal: True for a single sample and    *)
(* for 1,1,1,1,1, False for 1,2,1,2,1.                                     *)
C14_ShortHistoryAllEqual ==
    (/\ ret.op = "check_pv_frozen"
     /\ ret.pvname \in DOMAIN pv_values
     /\ ret.pvname \notin SetPointNames) =>
        LET values == pv_values[ret.pvname].values
            n == Len(values)
        IN  (n >= 1 /\ n < 15 /\ values[n] # None) =>
               /\ ret.result <=> (\A i, j \in 1..n : values[i] = values[j])
               /\ n = 1 => ret.result
               /\ values = <<"1", "1", "1", "1", "1">> => ret.result
               /\ values = <<"1", "2", "1", "2", "1">> => ~ret.result

\* the verdict on the alternating history 1,2,1,2,1, whose ends are equal
C14_Witness ==
    /\ ret.op = "check_pv_frozen"
    /\ ret.pvname = "SI-01:Temp-Mon"
    /\ ret.pvname \in DOMAIN pv_values
    /\ pv_values[ret.pvname].values = <<"1", "2", "1", "2", "1">>
    /\ ~ret.result

----------------------------------------------------------------------------
(* C15: the first check cycle is the one run() itself starts on entering   *)
(* the running phase, before any tick of the timer, and it starts only     *)
(* when every filtered PV has its first sample in the store and its        *)
(* subscription; no cycle runs while run() is connecting, listing or       *)
(* subscribing.                                                            *)
C15_FirstCheckOnEntry ==
    /\ []((ncycles > 0 \/ cyc.pc # "idle") =>
             /\ pc \in {"first_cycle", "finish", "returned"}
             /\ timer # None
             /\ \A i \in 1..Len(filtered_pvnames) :
                   /\ filtered_pvnames[i] \in DOMAIN pv_values
                   /\ Len(pv_values[filtered_pvnames[i]].values) >= 1
                   /\ filtered_pvnames[i] \in pv_monitors)
    /\ [](pc \in {"Idle", "create_connector", "get_all_pvnames", "filter_pvnames",
                  "start_pv_monitor", "camonitor", "check_pvs"} =>
             (ncycles = 0 /\ cyc.pc = "idle" /\ report = <<>>))
    /\ [][ (pc = "check_pvs" /\ pc' # pc) =>
              (pc' = "first_cycle" /\ ncycles' = 1 /\ cyc'.pc = "scan") ]_vars
    /\ [][ ncycles' # ncycles =>
              IF ncycles = 0
              THEN pc = "check_pvs" /\ timer # None
              ELSE pc = "returned" /\ pc' = pc /\ timer = "active" ]_vars

\* the first cycle under way over two subscribed PVs, run() not yet returned
C15_Witness ==
    /\ pc = "first_cycle"
    /\ ncycles = 1
    /\ cyc.pc = "scan"
    /\ Len(filtered_pvnames) = 2
    /\ \A i \in 1..2 : filtered_pvnames[i] \in pv_monitors

----------------------------------------------------------------------------
(* C16: a check cycle only reads: each of its steps, from the start of     *)
(* check_pvs to the emission of its report, leaves every history, the keys *)
(* of the store and the subscriptions as they are, and reads nothing from  *)
(* the control system (no connection, listing or value read).              *)
C16_CycleOnlyReads ==
    [][ (cyc' # cyc \/ (report' # report /\ report' # <<>>)) =>
           /\ pv_values' = pv_values
           /\ pv_keys' = pv_keys
           /\ pv_monitors' = pv_monitors
           /\ cb' = cb
           /\ conn' = conn
           /\ all_pvnames' = all_pvnames
           /\ filtered_pvnames' = filtered_pvnames
           /\ idx' = idx ]_vars

\* the second cycle has tested and reported a PV whose history holds two
\* samples
C16_Witness ==
    /\ ncycles = 2
    /\ cyc.pc = "idle"
    /\ report # <<>>
    /\ pv_keys # <<>>
    /\ \E k \in 1..Len(pv_keys) :
          /\ Len(pv_values[pv_keys[k]].values) = 2
          /\ Len(pv_values[pv_keys[k]].timestamps) = 2
          /\ ~InList(pv_keys[k], ReportedDisconnected)

----------------------------------------------------------------------------
\* list `old` is the beginning of list `new`
Extends(new, old) ==
    /\ Len(old) <= Len(new)
    /\ \A i \in 1..Len(old) : new[i] = old[i]

(* C17: histories are append-only: no step of the run, of a callback, of a *)
(* check cycle or of stop() removes an entry, shortens a history or        *)
(* changes a stored sample; a callback appends exactly one value and then  *)
(* exactly one timestamp to the history of the PV it was delivered for,    *)
(* and changes no other history.                                           *)
C17_AppendOnly ==
    /\ [][ \A p \in DOMAIN pv_values :
              /\ p \in DOMAIN pv_values'
              /\ Extends(pv_values'[p].values, pv_values[p].values)
              /\ Extends(pv_values'[p].timestamps, pv_values[p].timestamps) ]_vars
    /\ [][ (cb = None /\ cb' # None) =>
              /\ cb' \in pv_monitors
              /\ DOMAIN pv_values' = DOMAIN pv_values
              /\ Len(pv_values'[cb'].values) = Len(pv_values[cb'].values) + 1
              /\ pv_values'[cb'].timestamps = pv_values[cb'].timestamps
              /\ \A p \in DOMAIN pv_values \ {cb'} : pv_values'[p] = pv_values[p] ]_vars
    /\ [][ (cb # None /\ cb' = None) =>
              /\ DOMAIN pv_values' = DOMAIN pv_values
              /\ pv_values'[cb].values = pv_values[cb].values
              /\ pv_values'[cb].timestamps =
                    Append(pv_values[cb].timestamps, Timestamp)
              /\ \A p \in DOMAIN pv_values \ {cb} : pv_values'[p] = pv_values[p] ]_vars

\* a callback has returned after appending a changed value to one of two
\* histories
C17_Witness ==
    /\ cb = None
    /\ \E p, q \in pv_monitors :
          /\ p # q
          /\ Len(pv_values[p].values) = 2
          /\ Len(pv_values[p].timestamps) = 2
          /\ pv_values[p].values[1] # pv_values[p].values[2]
          /\ Len(pv_values[q].values) = 1

----------------------------------------------------------------------------
(* C18 as claimed: check_pv_frozen called on its own tests the last value  *)
(* before the set-point suffixes: for every PV name, set point or not, and *)
(* every history with samples whose last value is None, it returns False.  *)
C18_NullLastNeverFrozen ==
    (/\ ret.op = "check_pv_frozen"
     /\ ret.pvname \in DOMAIN pv_values) =>
        LET values == pv_values[ret.pvname].values
            timestamps == pv_values[ret.pvname].timestamps
        IN  (values # <<>> /\ timestamps # <<>> /\ values[Len(values)] = None) =>
               ~ret.result

----------------------------------------------------------------------------
\* the call is check_pv_frozen on the stored history of a PV that is not a
\* set point
FrozenCallOnPlainPV ==
    /\ ret.op = "check_pv_frozen"
    /\ ret.pvname \in DOMAIN pv_values
    /\ ret.pvname \notin SetPointNames
    /\ pv_values[ret.pvname].timestamps # <<>>

\* the verdict is the same for every history that has the same first 15 and
\* the same last 15 samples as the stored one (of 15 samples or more) and
\* any samples in between
SameVerdictOnSameWindows ==
    FrozenCallOnPlainPV =>
        LET values == pv_values[ret.pvname].values
            n == Len(values)
        IN  n >= 15 =>
               \A middle \in ShortHistories(MaxHist) :
                   LET other == SubSeq(values, 1, 15) \o middle
                                   \o SubSeq(values, n - 14, n)
                   IN  check_pv_frozen(
                           [pv_values EXCEPT ![ret.pvname].values = other],
                           ret.pvname) = ret.result

\* the stored history began with a value that is not None, changed, and
\* ends with 15 samples equal to its first
ChangedAndReturned(values) ==
    /\ Len(values) >= 17
    /\ values[1] # None
    /\ \E i \in 2..(Len(values) - 15) : values[i] # values[1]
    /\ \A i \in (Len(values) - 14)..Len(values) : values[i] = values[1]

(* C19 as claimed: the frozen verdict of a PV that is not a set point      *)
(* depends only on the first and the last min(15, n) samples, so a PV that *)
(* changed value and then returned to its first value for 15 consecutive   *)
(* samples is frozen again.                                                *)
C19_ReturnedIsFrozen ==
    /\ SameVerdictOnSameWindows
    /\ (FrozenCallOnPlainPV /\ ChangedAndReturned(pv_values[ret.pvname].values))
          => ret.result

(* C19 as amended: the frozen verdict of a PV that is not a set point      *)
(* depends only on the first and the last min(15, n) samples, so a PV      *)
(* whose first 15 samples are equal, that then changed value and returned  *)
(* to its first value for 15 consecutive samples, is frozen again.         *)
C19_ReturnedAfterWindowIsFrozen ==
    /\ SameVerdictOnSameWindows
    /\ (/\ FrozenCallOnPlainPV
        /\ ChangedAndReturned(pv_values[ret.pvname].values)
        /\ \A i \in 1..15 : pv_values[ret.pvname].values[i] =
                               pv_values[ret.pvname].values[1])
          => ret.result

\* 15 equal samples, one different sample, 15 samples equal to the first:
\* frozen
C19_Witness ==
    /\ FrozenCallOnPlainPV
    /\ Len(pv_values[ret.pvname].values) = 31
    /\ ChangedAndReturned(pv_values[ret.pvname].values)
    /\ pv_values[ret.pvname].values[16] # pv_values[ret.pvname].values[1]
    /\ ret.result

----------------------------------------------------------------------------
\* in the cycle under way, key k has been tested and its last sample was
\* None at that moment
TestedWithNone(k) == k <= Len(cyc.last_is_none) /\ cyc.last_is_none[k]

\* in the cycle under way, key k has been tested and its last sample was not
\* None at that moment
TestedWithValue(k) == k <= Len(cyc.last_is_none) /\ ~cyc.last_is_none[k]

(* C20: the disconnected verdict follows the most recent sample only, from *)
(* one cycle to the next: a PV the cycle before reported disconnected is   *)
(* not put in the disconnected list, nor reported disconnected, by a cycle *)
(* that finds a value other than None as its last sample, and a PV the     *)
(* cycle before did not report disconnected is listed and reported         *)
(* disconnected by a cycle that finds None as its last sample.             *)
C20_VerdictFollowsLastSample ==
    /\ []((ncycles >= 2 /\ cyc.pc # "idle" /\ report # <<>>) =>
             \A k \in 1..Len(pv_keys) :
                 /\ (InList(pv_keys[k], ReportedDisconnected) /\ TestedWithValue(k))
                       => ~InList(pv_keys[k], cyc.disconnected_pvs)
                 /\ (~InList(pv_keys[k], ReportedDisconnected) /\ TestedWithNone(k))
                       => InList(pv_keys[k], cyc.disconnected_pvs))
    /\ [][ (ncycles >= 2 /\ cyc.pc # "idle" /\ cyc'.pc = "idle" /\ report # <<>>) =>
              \A k \in 1..Len(pv_keys) :
                  /\ (InList(pv_keys[k], ReportedDisconnected) /\ TestedWithValue(k))
                        => ~InList(pv_keys[k], report'[2].names)
                  /\ (~InList(pv_keys[k], ReportedDisconnected) /\ TestedWithNone(k))
                        => InList(pv_keys[k], report'[2].names) ]_vars

\* the second cycle has found connected a PV that the first cycle reported
\* disconnected and that has received a value since
C20_Witness ==
    /\ ncycles = 2
    /\ cyc.pc = "scan"
    /\ report # <<>>
    /\ pv_keys # <<>>
    /\ InList(pv_keys[1], ReportedDisconnected)
    /\ TestedWithValue(1)
    /\ ~InList(pv_keys[1], cyc.disconnected_pvs)
    /\ pv_values[pv_keys[1]].values = <<None, "1">>

====
